---- MODULE Spec2Model ----
(***************************************************************************)
(* Sampling of two points on the perimeter of the square [0, L] x [0, L]: *)
(* the helpers and the nine sample_* strategies of square_points.py, the  *)
(* geometry predicates of utils/helpers.py and the constructors of        *)
(* models/shapes.py and core/base.py.                                      *)
(*                                                                         *)
(* Numbers are exact.  Lengths are integers counted in grid steps of half *)
(* the distinctness tolerance (Tol steps = 1e-12), so that differences    *)
(* below, at and above the tolerance all occur.  The quotients of the     *)
(* polar strategies are exact rationals <<n, d>> in lowest terms, d > 0.  *)
(***************************************************************************)
EXTENDS Integers, Sequences, FiniteSets

\* ---------------------------------------------------------------- bounds
\* the number of side lengths L > 0 tried
NumL == 2
\* angles are drawn from 8 * DirRes + 1 values of [0, 2*pi]
DirRes == 2
\* run_all is called with iterations in 0..MaxIter
MaxIter == 2

\* the tolerance 1e-12 of _is_distinct / are_distinct and of the retry
\* tests, in grid steps
Tol == 2

\* The sides tried are many times the tolerance, as the squares sampled are:
\* long enough for the rays of two neighbouring angles of the grid to meet
\* the boundary more than the tolerance apart.
LMin == 2 * DirRes * Tol + 1
LMax == LMin + NumL - 1
PosL == LMin..LMax

\* the arguments L passed: valid ones, 0 and negative ones
LValues == PosL \cup {0} \cup {0 - l : l \in PosL}

\* ---------------------------------------------------- exact arithmetic
Abs(n) == IF n < 0 THEN 0 - n ELSE n

RECURSIVE GCD(_, _)
GCD(a, b) == IF b = 0 THEN a ELSE GCD(b, a % b)

\* the rational n / d (d # 0) in lowest terms with a positive denominator
Norm(n, d) ==
    LET g == GCD(Abs(n), Abs(d))
        s == IF d < 0 THEN 0 - 1 ELSE 1
    IN  <<(s * n) \div g, (s * d) \div g>>

R(k) == <<k, 1>>
RAdd(a, b) == Norm(a[1] * b[2] + b[1] * a[2], a[2] * b[2])
RSub(a, b) == Norm(a[1] * b[2] - b[1] * a[2], a[2] * b[2])
RMul(a, b) == Norm(a[1] * b[1], a[2] * b[2])
RDiv(a, b) == Norm(a[1] * b[2], a[2] * b[1])
RAbs(a) == <<Abs(a[1]), a[2]>>
RLt(a, b) == a[1] * b[2] < b[1] * a[2]
RLe(a, b) == a[1] * b[2] <= b[1] * a[2]
RMin(a, b) == IF RLt(b, a) THEN b ELSE a
RMax(a, b) == IF RLt(a, b) THEN b ELSE a

\* a point with integer coordinates
Pt(x, y) == <<R(x), R(y)>>

\* Python's a % b for b # 0: the result has the sign of the divisor
PyMod(a, b) == IF b > 0 THEN a % b ELSE 0 - ((0 - a) % (0 - b))

\* the values random.uniform(a, b) can return: the closed range between a
\* and b, whichever is the smaller
Uniform(a, b) == IF a <= b THEN a..b ELSE b..a

\* ------------------------------------------------------------- helpers
\* _perimeter_to_xy without the reduction of t modulo 4L
PerimeterToXY_NoWrap(t, L) ==
    IF t < L THEN Pt(t, 0)
    ELSE IF t < 2 * L THEN Pt(L, t - L)
    ELSE IF t < 3 * L THEN Pt(L - (t - 2 * L), L)
    ELSE Pt(0, L - (t - 3 * L))

\* _perimeter_to_xy with the right side not shifted back by L
PerimeterToXY_RightUnshifted(t, L) ==
    LET u == PyMod(t, 4 * L)
    IN  IF u < L THEN Pt(u, 0)
        ELSE IF u < 2 * L THEN Pt(L, u)
        ELSE IF u < 3 * L THEN Pt(L - (u - 2 * L), L)
        ELSE Pt(0, L - (u - 3 * L))

\* _perimeter_to_xy with the top side run left to right
PerimeterToXY_TopMirrored(t, L) ==
    LET u == PyMod(t, 4 * L)
    IN  IF u < L THEN Pt(u, 0)
        ELSE IF u < 2 * L THEN Pt(L, u - L)
        ELSE IF u < 3 * L THEN Pt(u - 2 * L, L)
        ELSE Pt(0, L - (u - 3 * L))

\* _perimeter_to_xy(t, L), L # 0
PerimeterToXY(t, L) ==
    LET u == PyMod(t, 4 * L)
    IN  IF u < L THEN Pt(u, 0)
        ELSE IF u < 2 * L THEN Pt(L, u - L)
        ELSE IF u < 3 * L THEN Pt(L - (u - 2 * L), L)
        ELSE Pt(0, L - (u - 3 * L))

\* _is_distinct with "and" in place of "or"
IsDistinct_BothCoords(p1, p2) ==
    /\ RLt(R(Tol), RAbs(RSub(p1[1], p2[1])))
    /\ RLt(R(Tol), RAbs(RSub(p1[2], p2[2])))

\* _is_distinct with >= in place of >
IsDistinct_AtTol(p1, p2) ==
    \/ RLe(R(Tol), RAbs(RSub(p1[1], p2[1])))
    \/ RLe(R(Tol), RAbs(RSub(p1[2], p2[2])))

\* _is_distinct(p1, p2) with the default tol
IsDistinct(p1, p2) ==
    \/ RLt(R(Tol), RAbs(RSub(p1[1], p2[1])))
    \/ RLt(R(Tol), RAbs(RSub(p1[2], p2[2])))

\* --------------------------------------------------------------- state
VARIABLES
    fn,       \* the function called last ("none" before the first call)
    L,        \* its argument L
    pc,       \* "idle" (before the call), "loop" (in the retry loop) or "done"
    outcome,  \* "none", "returned" or "raised"
    t,        \* the argument t of _perimeter_to_xy
    t1, t2,   \* the locals t1, t2 (theta1, theta2) of the parametric and polar strategies
    side1, side2, s1, s2,  \* the locals of sample_side_pos
    p1, p2,   \* the locals p1, p2 of the strategies that loop on points
    result,   \* the points returned: <<>>, <<p>> or <<p1, p2>>
    obj,      \* the object a constructor call produced, NoObj if none
    point, tol,  \* the arguments point and tol of a classification of a point
    label,    \* the side a classification reported or counted ("none": nothing)
    iterations,  \* the argument iterations of run_all
    iter,     \* run_all: the number of iterations of its loop completed
    row,      \* run_all: the local row of the iteration in progress
    distances, min_wins, max_wins,  \* run_all: its three accumulators
    summary   \* the list summarize returned, <<>> before

params == <<t1, t2>>
sidepos == <<side1, side2, s1, s2>>
points == <<p1, p2>>
frame == <<fn, L, pc, outcome, t, result, obj>>
cls == <<point, tol, label>>
agg == <<iterations, iter, row, distances, min_wins, max_wins, summary>>
vars == <<fn, L, pc, outcome, t, t1, t2, side1, side2, s1, s2, p1, p2, result, obj,
          point, tol, label, iterations, iter, row, distances, min_wins, max_wins, summary>>

NoObj == [cls |-> "none", L |-> 0]

Init ==
    /\ fn = "none"
    /\ L = 0
    /\ pc = "idle"
    /\ outcome = "none"
    /\ t = 0
    /\ t1 = 0 /\ t2 = 0
    /\ side1 = "none" /\ side2 = "none" /\ s1 = 0 /\ s2 = 0
    /\ p1 = Pt(0, 0) /\ p2 = Pt(0, 0)
    /\ result = <<>>
    /\ obj = NoObj
    /\ point = Pt(0, 0) /\ tol = 0 /\ label = "none"
    /\ iterations = 0 /\ iter = 0 /\ row = <<>>
    /\ distances = <<>> /\ min_wins = <<>> /\ max_wins = <<>>
    /\ summary = <<>>

\* the locals of the other functions, as a fresh frame has them
NoParam == t1' = 0 /\ t2' = 0
NoSidePos == side1' = "none" /\ side2' = "none" /\ s1' = 0 /\ s2' = 0
NoPoints == p1' = Pt(0, 0) /\ p2' = Pt(0, 0)

\* One behaviour is one call (pc = "idle" before it): the functions keep no
\* state between calls.  A call of a strategy enters the retry loop with its
\* first two draws made.
Enter(f, l) ==
    /\ fn' = f
    /\ L' = l
    /\ pc' = "loop"
    /\ outcome' = "none"
    /\ t' = 0
    /\ result' = <<>>
    /\ obj' = NoObj
    /\ UNCHANGED <<cls, agg>>

InLoop(f) == pc = "loop" /\ fn = f

\* the loop is left and the pair is returned
Return(a, b) ==
    /\ result' = <<a, b>>
    /\ pc' = "done"
    /\ outcome' = "returned"
    /\ UNCHANGED <<fn, L, t, obj, params, sidepos, points, cls, agg>>

\* ---------------------------------------------------- sample_parametric
\* point(t) with the top side taken from 2L - t
ParametricPoint_WrongTop(u, l) ==
    IF u < l THEN Pt(u, 0)
    ELSE IF u < 2 * l THEN Pt(l, u - l)
    ELSE IF u < 3 * l THEN Pt(2 * l - u, l)
    ELSE Pt(0, 4 * l - u)

\* point(t) with the left side run upwards
ParametricPoint_LeftUp(u, l) ==
    IF u < l THEN Pt(u, 0)
    ELSE IF u < 2 * l THEN Pt(l, u - l)
    ELSE IF u < 3 * l THEN Pt(3 * l - u, l)
    ELSE Pt(0, u - 3 * l)

\* the inner point(t) of sample_parametric
ParametricPoint(u, l) ==
    IF u < l THEN Pt(u, 0)
    ELSE IF u < 2 * l THEN Pt(l, u - l)
    ELSE IF u < 3 * l THEN Pt(3 * l - u, l)
    ELSE Pt(0, 4 * l - u)

\* the retry test of the parametric and polar loops: abs(t1 - t2) < 1e-12
ParamRetry(a, b) == Abs(a - b) < Tol

Start_parametric ==
    /\ pc = "idle"
    /\ \E l \in LValues : \E a \in Uniform(0, 4 * l), b \in Uniform(0, 4 * l) :
           /\ Enter("sample_parametric", l)
           /\ t1' = a /\ t2' = b
           /\ NoSidePos /\ NoPoints

\* the loop of sample_parametric with a cap of one pass: it raises
Retry_parametric_GivesUp ==
    /\ InLoop("sample_parametric")
    /\ ParamRetry(t1, t2)
    /\ pc' = "done"
    /\ outcome' = "raised"
    /\ UNCHANGED <<fn, L, t, result, obj, cls, agg, params, sidepos, points>>

Retry_parametric ==
    /\ InLoop("sample_parametric")
    /\ ParamRetry(t1, t2)
    /\ \E b \in Uniform(0, 4 * L) : t2' = b
    /\ UNCHANGED <<frame, cls, agg, t1, sidepos, points>>

Return_parametric ==
    /\ InLoop("sample_parametric")
    /\ ~ParamRetry(t1, t2)
    /\ Return(ParametricPoint(t1, L), ParametricPoint(t2, L))

\* ------------------------------------------------------- sample_by_side
SIDES == {"bottom", "top", "left", "right"}

\* choose_point(side) of sample_by_side, s being its draw
ChoosePoint(side, s, l) ==
    IF side = "bottom" THEN Pt(s, 0)
    ELSE IF side = "top" THEN Pt(s, l)
    ELSE IF side = "left" THEN Pt(0, s)
    ELSE Pt(l, s)

Start_by_side ==
    /\ pc = "idle"
    /\ \E l \in LValues : \E sd1 \in SIDES, sd2 \in SIDES, a \in Uniform(0, l), b \in Uniform(0, l) :
           /\ Enter("sample_by_side", l)
           /\ p1' = ChoosePoint(sd1, a, l)
           /\ p2' = ChoosePoint(sd2, b, l)
           /\ NoParam /\ NoSidePos

Retry_by_side ==
    /\ InLoop("sample_by_side")
    /\ ~IsDistinct(p1, p2)
    /\ \E sd \in SIDES, b \in Uniform(0, L) : p2' = ChoosePoint(sd, b, L)
    /\ UNCHANGED <<frame, cls, agg, p1, params, sidepos>>

Return_by_side ==
    /\ InLoop("sample_by_side")
    /\ IsDistinct(p1, p2)
    /\ Return(p1, p2)

\* ------------------------------------------------- sample_by_edge_label
EDGES == {"x0", "xL", "y0", "yL"}

\* point(edge) of sample_by_edge_label, s being its draw
EdgePoint(edge, s, l) ==
    IF edge = "x0" THEN Pt(0, s)
    ELSE IF edge = "xL" THEN Pt(l, s)
    ELSE IF edge = "y0" THEN Pt(s, 0)
    ELSE Pt(s, l)

Start_by_edge_label ==
    /\ pc = "idle"
    /\ \E l \in LValues : \E e1 \in EDGES, e2 \in EDGES, a \in Uniform(0, l), b \in Uniform(0, l) :
           /\ Enter("sample_by_edge_label", l)
           /\ p1' = EdgePoint(e1, a, l)
           /\ p2' = EdgePoint(e2, b, l)
           /\ NoParam /\ NoSidePos

Retry_by_edge_label ==
    /\ InLoop("sample_by_edge_label")
    /\ ~IsDistinct(p1, p2)
    /\ \E e \in EDGES, b \in Uniform(0, L) : p2' = EdgePoint(e, b, L)
    /\ UNCHANGED <<frame, cls, agg, p1, params, sidepos>>

Return_by_edge_label ==
    /\ InLoop("sample_by_edge_label")
    /\ IsDistinct(p1, p2)
    /\ Return(p1, p2)

\* ----------------------------------------------------- sample_polar_ray
\* Angles are drawn from the 8 * DirRes + 1 values theta_0 = 0 < theta_1 <
\* ... < theta_(8 * DirRes) = 2*pi, any two of them at least 1e-12 apart.
Angles == 0..(8 * DirRes)

\* (math.cos(theta_k), math.sin(theta_k)) up to a positive factor: theta_k
\* is the angle of the k-th grid point on the boundary of the square
\* [-DirRes, DirRes]^2, counter-clockwise from (DirRes, 0).  Every value
\* computed from the direction below is unchanged by the factor.
Dir(k) ==
    LET j == k % (8 * DirRes)
    IN  IF j <= DirRes THEN <<DirRes, j>>
        ELSE IF j <= 3 * DirRes THEN <<2 * DirRes - j, DirRes>>
        ELSE IF j <= 5 * DirRes THEN <<0 - DirRes, 4 * DirRes - j>>
        ELSE IF j <= 7 * DirRes THEN <<j - 6 * DirRes, 0 - DirRes>>
        ELSE <<DirRes, j - 8 * DirRes>>

\* the retry test of the polar loops, abs(theta1 - theta2) < 1e-12: two
\* different angles of the grid are at least 1e-12 apart
AngleRetry(a, b) == a = b

\* the order of Python tuples (t, (x, y))
TupleLe(c, d) ==
    \/ RLt(c[1], d[1])
    \/ /\ c[1] = d[1]
       /\ \/ RLt(c[2][1], d[2][1])
          \/ c[2][1] = d[2][1] /\ RLe(c[2][2], d[2][2])

\* the list "candidates" without the search of the horizontal walls
Candidates_XWallsOnly(theta, l) ==
    LET cx == Norm(l, 2)
        cy == Norm(l, 2)
        dx == Dir(theta)[1]
        dy == Dir(theta)[2]
        XWall(xw) ==
            LET tt == RDiv(RSub(R(xw), cx), R(dx))
                y == RAdd(cy, RMul(tt, R(dy)))
            IN  <<tt, <<R(xw), y>>>>
    IN  IF dx # 0
        THEN {c \in {XWall(0), XWall(l)} :
                RLt(R(0), c[1]) /\ RLe(R(0), c[2][2]) /\ RLe(c[2][2], R(l))}
        ELSE {}

\* the list "candidates" of intersection(theta), as a set
Candidates(theta, l) ==
    LET cx == Norm(l, 2)
        cy == Norm(l, 2)
        dx == Dir(theta)[1]
        dy == Dir(theta)[2]
        XWall(xw) ==
            LET tt == RDiv(RSub(R(xw), cx), R(dx))
                y == RAdd(cy, RMul(tt, R(dy)))
            IN  <<tt, <<R(xw), y>>>>
        YWall(yw) ==
            LET tt == RDiv(RSub(R(yw), cy), R(dy))
                x == RAdd(cx, RMul(tt, R(dx)))
            IN  <<tt, <<x, R(yw)>>>>
        xs == IF dx # 0
              THEN {c \in {XWall(0), XWall(l)} :
                      RLt(R(0), c[1]) /\ RLe(R(0), c[2][2]) /\ RLe(c[2][2], R(l))}
              ELSE {}
        ys == IF dy # 0
              THEN {c \in {YWall(0), YWall(l)} :
                      RLt(R(0), c[1]) /\ RLe(R(0), c[2][1]) /\ RLe(c[2][1], R(l))}
              ELSE {}
    IN  xs \cup ys

\* the divisors of the divisions intersection(theta) performs: dx under
\* "if dx != 0" and dy under "if dy != 0"
Divisors(theta) ==
    {Dir(theta)[i] : i \in {i \in {1, 2} : Dir(theta)[i] # 0}}

\* intersection(theta) with the centre as the fallback point
Intersection_FallbackCentre(theta, l) ==
    LET cands == Candidates(theta, l)
    IN  IF cands = {} THEN <<Norm(l, 2), Norm(l, 2)>>
        ELSE (CHOOSE c \in cands : \A d \in cands : TupleLe(c, d))[2]

\* intersection(theta) of sample_polar_ray
Intersection(theta, l) ==
    LET cands == Candidates(theta, l)
    IN  IF cands = {} THEN <<Norm(l, 2), R(0)>>
        ELSE (CHOOSE c \in cands : \A d \in cands : TupleLe(c, d))[2]

Start_polar_ray ==
    /\ pc = "idle"
    /\ \E l \in LValues : \E a \in Angles, b \in Angles :
           /\ Enter("sample_polar_ray", l)
           /\ t1' = a /\ t2' = b
           /\ NoSidePos /\ NoPoints

Retry_polar_ray ==
    /\ InLoop("sample_polar_ray")
    /\ AngleRetry(t1, t2)
    /\ \E b \in Angles : t2' = b
    /\ UNCHANGED <<frame, cls, agg, t1, sidepos, points>>

Return_polar_ray ==
    /\ InLoop("sample_polar_ray")
    /\ ~AngleRetry(t1, t2)
    /\ Return(Intersection(t1, L), Intersection(t2, L))

\* ------------------------------------------------------ sample_side_pos
\* point(side, s) of sample_side_pos
SidePosPoint(side, s, l) ==
    IF side = "bottom" THEN Pt(s, 0)
    ELSE IF side = "top" THEN Pt(s, l)
    ELSE IF side = "left" THEN Pt(0, s)
    ELSE Pt(l, s)

\* the retry test of sample_side_pos
SidePosRetry(sd1, sd2, a, b) == sd1 = sd2 /\ Abs(a - b) < Tol

Start_side_pos ==
    /\ pc = "idle"
    /\ \E l \in LValues : \E sd1 \in SIDES, sd2 \in SIDES, a \in Uniform(0, l), b \in Uniform(0, l) :
           /\ Enter("sample_side_pos", l)
           /\ side1' = sd1 /\ side2' = sd2
           /\ s1' = a /\ s2' = b
           /\ NoParam /\ NoPoints

\* the body of the loop of sample_side_pos drawing both points anew
Retry_side_pos_RedrawsBoth ==
    /\ InLoop("sample_side_pos")
    /\ SidePosRetry(side1, side2, s1, s2)
    /\ \E sd \in SIDES, b \in Uniform(0, L) : side2' = sd /\ s2' = b
    /\ \E sd \in SIDES, a \in Uniform(0, L) : side1' = sd /\ s1' = a
    /\ UNCHANGED <<frame, cls, agg, params, points>>

Retry_side_pos ==
    /\ InLoop("sample_side_pos")
    /\ SidePosRetry(side1, side2, s1, s2)
    /\ \E sd \in SIDES, b \in Uniform(0, L) : side2' = sd /\ s2' = b
    /\ UNCHANGED <<frame, cls, agg, side1, s1, params, points>>

Return_side_pos ==
    /\ InLoop("sample_side_pos")
    /\ ~SidePosRetry(side1, side2, s1, s2)
    /\ Return(SidePosPoint(side1, s1, L), SidePosPoint(side2, s2, L))

\* -------------------------------------------- sample_parametric_modular
Start_parametric_modular ==
    /\ pc = "idle"
    /\ \E l \in LValues : \E a \in Uniform(0, 4 * l), b \in Uniform(0, 4 * l) :
           /\ Enter("sample_parametric_modular", l)
           /\ t1' = a /\ t2' = b
           /\ NoSidePos /\ NoPoints

Retry_parametric_modular ==
    /\ InLoop("sample_parametric_modular")
    /\ ParamRetry(t1, t2)
    /\ \E b \in Uniform(0, 4 * L) : t2' = b
    /\ UNCHANGED <<frame, cls, agg, t1, sidepos, points>>

\* with L = 0 the loop is never left (t1 = t2 = 0), so t % (4 * L) is
\* evaluated with L # 0 only
Return_parametric_modular ==
    /\ InLoop("sample_parametric_modular")
    /\ ~ParamRetry(t1, t2)
    /\ Return(PerimeterToXY(t1, L), PerimeterToXY(t2, L))

\* ----------------------------------------------------- sample_cartesian
\* pick_point() of sample_cartesian: fixx is random.random() < 0.5, w the
\* random.choice([0.0, L]) and s the random.uniform(0, L)
PickCartesian(fixx, w, s) == IF fixx THEN Pt(w, s) ELSE Pt(s, w)

Start_cartesian ==
    /\ pc = "idle"
    /\ \E l \in LValues : \E f1 \in BOOLEAN, f2 \in BOOLEAN, w1 \in {0, l}, w2 \in {0, l},
                             a \in Uniform(0, l), b \in Uniform(0, l) :
           /\ Enter("sample_cartesian", l)
           /\ p1' = PickCartesian(f1, w1, a)
           /\ p2' = PickCartesian(f2, w2, b)
           /\ NoParam /\ NoSidePos

Retry_cartesian ==
    /\ InLoop("sample_cartesian")
    /\ ~IsDistinct(p1, p2)
    /\ \E f \in BOOLEAN, w \in {0, L}, b \in Uniform(0, L) : p2' = PickCartesian(f, w, b)
    /\ UNCHANGED <<frame, cls, agg, p1, params, sidepos>>

Return_cartesian ==
    /\ InLoop("sample_cartesian")
    /\ IsDistinct(p1, p2)
    /\ Return(p1, p2)

\* --------------------------------------------------- sample_polar_angle
\* angle_to_point(theta) with half = L
AngleToPoint_FullSide(theta, l) ==
    LET cx == Norm(l, 2)
        cy == Norm(l, 2)
        cos_t == R(Dir(theta)[1])
        sin_t == R(Dir(theta)[2])
        half == R(l)
        scale == IF RLe(RAbs(sin_t), RAbs(cos_t))
                 THEN RDiv(half, RAbs(cos_t))
                 ELSE RDiv(half, RAbs(sin_t))
        x == RMax(R(0), RMin(R(l), RAdd(cx, RMul(cos_t, scale))))
        y == RMax(R(0), RMin(R(l), RAdd(cy, RMul(sin_t, scale))))
    IN  <<x, y>>

\* angle_to_point(theta) of sample_polar_angle
AngleToPoint(theta, l) ==
    LET cx == Norm(l, 2)
        cy == Norm(l, 2)
        cos_t == R(Dir(theta)[1])
        sin_t == R(Dir(theta)[2])
        half == Norm(l, 2)
        scale == IF RLe(RAbs(sin_t), RAbs(cos_t))
                 THEN RDiv(half, RAbs(cos_t))
                 ELSE RDiv(half, RAbs(sin_t))
        x == RMax(R(0), RMin(R(l), RAdd(cx, RMul(cos_t, scale))))
        y == RMax(R(0), RMin(R(l), RAdd(cy, RMul(sin_t, scale))))
    IN  <<x, y>>

Start_polar_angle ==
    /\ pc = "idle"
    /\ \E l \in LValues : \E a \in Angles, b \in Angles :
           /\ Enter("sample_polar_angle", l)
           /\ t1' = a /\ t2' = b
           /\ NoSidePos /\ NoPoints

Retry_polar_angle ==
    /\ InLoop("sample_polar_angle")
    /\ AngleRetry(t1, t2)
    /\ \E b \in Angles : t2' = b
    /\ UNCHANGED <<frame, cls, agg, t1, sidepos, points>>

Return_polar_angle ==
    /\ InLoop("sample_polar_angle")
    /\ ~AngleRetry(t1, t2)
    /\ Return(AngleToPoint(t1, L), AngleToPoint(t2, L))

\* project_to_border looking at the sides in the order left, right, bottom, top
ProjectToBorder_LeftFirst(x, y, l) ==
    LET bottom == y
        top == l - y
        left == x
        right == l - x
    IN  IF left <= right /\ left <= bottom /\ left <= top THEN Pt(0, y)
        ELSE IF right <= bottom /\ right <= top THEN Pt(l, y)
        ELSE IF bottom <= top THEN Pt(x, 0)
        ELSE Pt(x, l)

\* ------------------------------------------- sample_interior_projection
\* project_to_border(x, y): min(d, key=d.get) takes the first key, in the
\* order bottom, top, left, right, whose value is the least
ProjectToBorder(x, y, l) ==
    LET bottom == y
        top == l - y
        left == x
        right == l - x
    IN  IF bottom <= top /\ bottom <= left /\ bottom <= right THEN Pt(x, 0)
        ELSE IF top <= left /\ top <= right THEN Pt(x, l)
        ELSE IF left <= right THEN Pt(0, y)
        ELSE Pt(l, y)

\* project_to_border(x, y) on its own, for a point of the square [0, L]^2
Call_project_to_border ==
    /\ pc = "idle"
    /\ \E l \in LValues : \E x \in Uniform(0, l), y \in Uniform(0, l) :
           /\ fn' = "project_to_border"
           /\ L' = l
           /\ point' = Pt(x, y)
           /\ pc' = "done"
           /\ outcome' = "returned"
           /\ result' = <<ProjectToBorder(x, y, l)>>
           /\ UNCHANGED <<t, obj, tol, label, params, sidepos, points, agg>>

Start_interior_projection ==
    /\ pc = "idle"
    /\ \E l \in LValues : \E x1 \in Uniform(0, l), y1 \in Uniform(0, l),
                             x2 \in Uniform(0, l), y2 \in Uniform(0, l) :
           /\ Enter("sample_interior_projection", l)
           /\ p1' = ProjectToBorder(x1, y1, l)
           /\ p2' = ProjectToBorder(x2, y2, l)
           /\ NoParam /\ NoSidePos

Retry_interior_projection ==
    /\ InLoop("sample_interior_projection")
    /\ ~IsDistinct(p1, p2)
    /\ \E x \in Uniform(0, L), y \in Uniform(0, L) : p2' = ProjectToBorder(x, y, L)
    /\ UNCHANGED <<frame, cls, agg, p1, params, sidepos>>

Return_interior_projection ==
    /\ InLoop("sample_interior_projection")
    /\ IsDistinct(p1, p2)
    /\ Return(p1, p2)

\* ----------------------------------------------- a call of the helper
\* the arguments t tried: two periods either side of 0
TValues == (0 - 8 * LMax)..(8 * LMax)

\* _perimeter_to_xy(t, L); t % (4 * L) raises ZeroDivisionError when L = 0
Call_perimeter_to_xy ==
    /\ pc = "idle"
    /\ \E l \in LValues, u \in TValues :
           /\ fn' = "_perimeter_to_xy"
           /\ L' = l
           /\ t' = u
           /\ pc' = "done"
           /\ IF l = 0
              THEN outcome' = "raised" /\ result' = <<>>
              ELSE outcome' = "returned" /\ result' = <<PerimeterToXY(u, l)>>
           /\ UNCHANGED <<obj, params, sidepos, points, cls, agg>>

\* ---------------------------------------------------- the constructors
\* the test of Square.__init__ with < in place of <=
SquareRejects_Strict(l) == l < 0

\* the test of Square.__init__: if L <= 0: raise ValueError
SquareRejects(l) == l <= 0

\* Square(L)
New_Square ==
    /\ pc = "idle"
    /\ \E l \in LValues :
           /\ fn' = "Square"
           /\ L' = l
           /\ pc' = "done"
           /\ IF SquareRejects(l)
              THEN outcome' = "raised" /\ obj' = NoObj
              ELSE outcome' = "returned" /\ obj' = [cls |-> "Square", L |-> l]
           /\ UNCHANGED <<t, result, params, sidepos, points, cls, agg>>

\* the test of PerimeterSampler.__init__: if L <= 0: raise ValueError
SamplerRejects(l) == l <= 0

\* PerimeterSampler.__init__(L), run for an instance of a concrete subclass
New_PerimeterSampler ==
    /\ pc = "idle"
    /\ \E l \in LValues :
           /\ fn' = "PerimeterSampler"
           /\ L' = l
           /\ pc' = "done"
           /\ IF SamplerRejects(l)
              THEN outcome' = "raised" /\ obj' = NoObj
              ELSE outcome' = "returned" /\ obj' = [cls |-> "PerimeterSampler", L |-> l]
           /\ UNCHANGED <<t, result, params, sidepos, points, cls, agg>>

\* ======================================== classification of a point
\* 1e-9, the default tolerance of the classification routines, in grid
\* steps: a thousand times the 1e-12 of _is_distinct
EdgeTol == 1000 * Tol

\* the argument tol of side_of and is_on_perimeter
TolValues == {Tol, EdgeTol}

\* the argument L of the classification routines: squares much larger than
\* the tolerances
ClsLValues == {(NumL + k) * EdgeTol : k \in 1..NumL}

\* the coordinates of the points classified: on, next to, and far from the
\* lines x = 0, x = L (y = 0, y = L)
CoordValues(l) ==
    {0 - l, 0 - EdgeTol, 0 - 1, 0, 1, EdgeTol, l \div 2,
     l - EdgeTol, l - 1, l, l + 1, l + EdgeTol, 2 * l}

Near(v, w, tl) == RLt(RAbs(RSub(v, w)), R(tl))
InRange(v, l) == RLe(R(0), v) /\ RLe(v, R(l))

\* utils.helpers.is_on_perimeter(point, L, tol)
IsOnPerimeter(p, l, tl) ==
    LET x == p[1]
        y == p[2]
        on_bottom == Near(y, R(0), tl) /\ InRange(x, l)
        on_top == Near(y, R(l), tl) /\ InRange(x, l)
        on_left == Near(x, R(0), tl) /\ InRange(y, l)
        on_right == Near(x, R(l), tl) /\ InRange(y, l)
    IN  on_bottom \/ on_top \/ on_left \/ on_right

\* utils.helpers.side_of(point, L, tol), and the side_of of the tests
SideOf(p, l, tl) ==
    LET x == p[1]
        y == p[2]
        sides == {sd \in {"bottom", "top", "left", "right"} :
                     \/ sd = "bottom" /\ Near(y, R(0), tl)
                     \/ sd = "top" /\ Near(y, R(l), tl)
                     \/ sd = "left" /\ Near(x, R(0), tl)
                     \/ sd = "right" /\ Near(x, R(l), tl)}
    IN  IF Cardinality(sides) > 1 THEN "corner"
        ELSE IF sides = {} THEN "off"
        ELSE CHOOSE sd \in sides : TRUE

\* the if / elif chain of main.test_method and of check_distribution: the
\* counter of edge_count that the point increments, "none" when it
\* increments none
EdgeCounted(p, l) ==
    LET x == p[1]
        y == p[2]
    IN  IF Near(y, R(0), EdgeTol) THEN "bottom"
        ELSE IF Near(y, R(l), EdgeTol) THEN "top"
        ELSE IF Near(x, R(0), EdgeTol) THEN "left"
        ELSE IF Near(x, R(l), EdgeTol) THEN "right"
        ELSE "none"

\* utils.helpers.euclidean(p1, p2), squared: math.hypot(dx, dy) ** 2
EuclideanSq(p, q) ==
    LET dx == RSub(p[1], q[1])
        dy == RSub(p[2], q[2])
    IN  RAdd(RMul(dx, dx), RMul(dy, dy))

\* one call f(p, l, tl) of a classification routine that returns lb
Classify(f, p, l, tl, lb) ==
    /\ fn' = f
    /\ L' = l
    /\ point' = p
    /\ tol' = tl
    /\ label' = lb
    /\ pc' = "done"
    /\ outcome' = "returned"
    /\ UNCHANGED <<t, result, obj, params, sidepos, points, agg>>

Call_is_on_perimeter ==
    /\ pc = "idle"
    /\ \E l \in ClsLValues, tl \in TolValues :
           \E x \in CoordValues(l), y \in CoordValues(l) :
               Classify("is_on_perimeter", Pt(x, y), l, tl,
                        IF IsOnPerimeter(Pt(x, y), l, tl) THEN "True" ELSE "False")

\* Square.on_perimeter accepting a coordinate at exactly tol from a side line
SquareOnPerimeter_AtTol(p, l, tl) ==
    LET x == p[1]
        y == p[2]
        at(v, w) == RLe(RAbs(RSub(v, w)), R(tl))
    IN  \/ at(y, R(0)) /\ InRange(x, l)
        \/ at(y, R(l)) /\ InRange(x, l)
        \/ at(x, R(0)) /\ InRange(y, l)
        \/ at(x, R(l)) /\ InRange(y, l)

\* Square.on_perimeter(point, tol), for a Square whose self.L is l
SquareOnPerimeter(p, l, tl) ==
    LET x == p[1]
        y == p[2]
        on_bottom == RLt(RAbs(y), R(tl)) /\ RLe(R(0), x) /\ RLe(x, R(l))
        on_top == RLt(RAbs(RSub(y, R(l))), R(tl)) /\ RLe(R(0), x) /\ RLe(x, R(l))
        on_left == RLt(RAbs(x), R(tl)) /\ RLe(R(0), y) /\ RLe(y, R(l))
        on_right == RLt(RAbs(RSub(x, R(l))), R(tl)) /\ RLe(R(0), y) /\ RLe(y, R(l))
    IN  on_bottom \/ on_top \/ on_left \/ on_right

\* Square(L).on_perimeter(point, tol)
Call_Square_on_perimeter ==
    /\ pc = "idle"
    /\ \E l \in ClsLValues, tl \in TolValues :
           \E x \in CoordValues(l), y \in CoordValues(l) :
               Classify("Square.on_perimeter", Pt(x, y), l, tl,
                        IF SquareOnPerimeter(Pt(x, y), l, tl) THEN "True" ELSE "False")

\* the coordinates of the points compared: equal, closer than, at, and
\* farther than either tolerance
PairCoordValues == {0, 1, Tol, Tol + 1, EdgeTol, EdgeTol + 1}

\* are_distinct with >= in place of >
AreDistinct_AtTol(q1, q2, tl) ==
    \/ RLe(R(tl), RAbs(RSub(q1[1], q2[1])))
    \/ RLe(R(tl), RAbs(RSub(q1[2], q2[2])))

\* utils.helpers.are_distinct(p1, p2, tol)
AreDistinct(q1, q2, tl) ==
    \/ RLt(R(tl), RAbs(RSub(q1[1], q2[1])))
    \/ RLt(R(tl), RAbs(RSub(q1[2], q2[2])))

\* _is_distinct(p1, p2, tol) with tol given
IsDistinctTol(q1, q2, tl) ==
    \/ RLt(R(tl), RAbs(RSub(q1[1], q2[1])))
    \/ RLt(R(tl), RAbs(RSub(q1[2], q2[2])))

\* one call f(p1, p2, tol) of a comparison of two points, answering lb
Compare(f, q1, q2, tl, lb) ==
    /\ fn' = f
    /\ p1' = q1
    /\ p2' = q2
    /\ tol' = tl
    /\ label' = lb
    /\ pc' = "done"
    /\ outcome' = "returned"
    /\ UNCHANGED <<L, t, result, obj, point, params, sidepos, agg>>

\* are_distinct(p1, p2, tol)
Call_are_distinct ==
    /\ pc = "idle"
    /\ \E tl \in TolValues :
           \E x1 \in PairCoordValues, y1 \in PairCoordValues,
              x2 \in PairCoordValues, y2 \in PairCoordValues :
               Compare("are_distinct", Pt(x1, y1), Pt(x2, y2), tl,
                       IF AreDistinct(Pt(x1, y1), Pt(x2, y2), tl) THEN "True" ELSE "False")

\* _is_distinct(p1, p2, tol)
Call_is_distinct ==
    /\ pc = "idle"
    /\ \E tl \in TolValues :
           \E x1 \in PairCoordValues, y1 \in PairCoordValues,
              x2 \in PairCoordValues, y2 \in PairCoordValues :
               Compare("_is_distinct", Pt(x1, y1), Pt(x2, y2), tl,
                       IF IsDistinctTol(Pt(x1, y1), Pt(x2, y2), tl) THEN "True" ELSE "False")

Call_side_of ==
    /\ pc = "idle"
    /\ \E l \in ClsLValues, tl \in TolValues :
           \E x \in CoordValues(l), y \in CoordValues(l) :
               Classify("side_of", Pt(x, y), l, tl, SideOf(Pt(x, y), l, tl))

\* side_of of tests/test_square_points.py
Call_tests_side_of ==
    /\ pc = "idle"
    /\ \E l \in ClsLValues, tl \in TolValues :
           \E x \in CoordValues(l), y \in CoordValues(l) :
               Classify("tests.side_of", Pt(x, y), l, tl, SideOf(Pt(x, y), l, tl))

\* main.test_method: the categorisation of one point p of [p1, p2]
Count_test_method ==
    /\ pc = "idle"
    /\ \E l \in ClsLValues :
           \E x \in CoordValues(l), y \in CoordValues(l) :
               Classify("test_method", Pt(x, y), l, EdgeTol, EdgeCounted(Pt(x, y), l))

\* test_dist_1000.check_distribution: the same on its module-level L
Count_check_distribution ==
    /\ pc = "idle"
    /\ \E l \in ClsLValues :
           \E x \in CoordValues(l), y \in CoordValues(l) :
               Classify("check_distribution", Pt(x, y), l, EdgeTol,
                        EdgeCounted(Pt(x, y), l))

\* ============================================== distance_analysis.py
\* The table METHODS, cut to its first two entries.  run_all and summarize
\* treat every entry alike and use the table only through its length N.
METHODS == <<"1. Parametric", "2. Side Selection">>
N == Len(METHODS)

\* None, as an entry of a row: no distance is negative
None == 0 - 1

\* 1 / rel_tol of math.isclose(d, min_d, rel_tol=1e-9), in the unit of the
\* distances of this part: RelTolInv stands for 1e9 times that unit
RelTolInv == 100

\* the distances euclidean(p1, p2) tried: two that are within the relative
\* tolerance of each other, and one far from both
DistValues == {RelTolInv - 1, RelTolInv, 2 * RelTolInv}

\* the arguments of run_all: a valid side length, which is one of the
\* distances, and a negative one
RunLValues == {RelTolInv, 0 - RelTolInv}
IterValues == 0..MaxIter

Max2(a, b) == IF a < b THEN b ELSE a

\* math.isclose(a, b, rel_tol=1e-9), with tolerance by ==
IsClose_Exact(a, b) == a = b

\* math.isclose(a, b, rel_tol=1e-9): abs(a - b) <= rel_tol * max(abs(a), abs(b))
IsClose(a, b) == Abs(a - b) * RelTolInv <= Max2(Abs(a), Abs(b))

\* the list valid without its test "d is not None"
Valid_All(r) == 1..Len(r)

\* the indices of the list valid of run_all
Valid(r) == {i \in 1..Len(r) : r[i] # None}

\* min(d for _, d in valid) and max(d for _, d in valid), valid not empty
MinD(r) == CHOOSE d \in {r[i] : i \in Valid(r)} : \A i \in Valid(r) : d <= r[i]
MaxD(r) == CHOOSE d \in {r[i] : i \in Valid(r)} : \A i \in Valid(r) : r[i] <= d

\* the loop "for i, d in valid" crediting every method of the row
Credit_Everyone(wins, r, extreme) == [i \in 1..N |-> wins[i] + 1]

\* the loop "for i, d in valid" on one of the two tallies
Credit(wins, r, extreme) ==
    [i \in 1..N |->
        IF i \in Valid(r) /\ IsClose(r[i], extreme) THEN wins[i] + 1 ELSE wins[i]]

\* run_all(L, iterations) up to its loop; range(0) ends it at once
RunAll_Start ==
    /\ pc = "idle"
    /\ \E l \in RunLValues, n \in IterValues :
           /\ fn' = "run_all"
           /\ L' = l
           /\ iterations' = n
           /\ iter' = 0
           /\ row' = <<>>
           /\ distances' = [i \in 1..N |-> <<>>]
           /\ min_wins' = [i \in 1..N |-> 0]
           /\ max_wins' = [i \in 1..N |-> 0]
           /\ pc' = IF n = 0 THEN "done" ELSE "row"
           /\ outcome' = IF n = 0 THEN "returned" ELSE "none"
    /\ UNCHANGED <<t, result, obj, summary, params, sidepos, points, cls>>

\* the body of "try" appending the distance to the method's list at once
RunAll_InvokeReturns_AppendsAtOnce ==
    /\ fn = "run_all" /\ pc = "row"
    /\ Len(row) < N
    /\ \E d \in DistValues :
           /\ row' = Append(row, d)
           /\ distances' = [distances EXCEPT ![Len(row) + 1] = Append(@, d)]
    /\ UNCHANGED <<frame, iterations, iter, min_wins, max_wins, summary,
                   params, sidepos, points, cls>>

\* the body of "try": fn(L) returns and its distance joins the row
RunAll_InvokeReturns ==
    /\ fn = "run_all" /\ pc = "row"
    /\ Len(row) < N
    /\ \E d \in DistValues : row' = Append(row, d)
    /\ UNCHANGED <<frame, iterations, iter, distances, min_wins, max_wins, summary,
                   params, sidepos, points, cls>>

\* "except Exception": fn(L) raises and None joins the row
RunAll_InvokeRaises ==
    /\ fn = "run_all" /\ pc = "row"
    /\ Len(row) < N
    /\ row' = Append(row, None)
    /\ UNCHANGED <<frame, iterations, iter, distances, min_wins, max_wins, summary,
                   params, sidepos, points, cls>>

\* the rest of one iteration, the row being complete: the two tallies, the
\* row appended to the lists, and the start of the next iteration (row = [])
\* or the return
RunAll_FinishTrial ==
    /\ fn = "run_all" /\ pc = "row"
    /\ Len(row) = N
    /\ min_wins' = IF Valid(row) # {} THEN Credit(min_wins, row, MinD(row)) ELSE min_wins
    /\ max_wins' = IF Valid(row) # {} THEN Credit(max_wins, row, MaxD(row)) ELSE max_wins
    /\ distances' = [i \in 1..N |-> Append(distances[i], row[i])]
    /\ iter' = iter + 1
    /\ row' = <<>>
    /\ pc' = IF iter + 1 = iterations THEN "done" ELSE "row"
    /\ outcome' = IF iter + 1 = iterations THEN "returned" ELSE "none"
    /\ UNCHANGED <<fn, L, t, result, obj, iterations, summary, params, sidepos, points, cls>>

\* ------------------------------------------------------------ summarize
NotNone(d) == d # None

RECURSIVE SeqSum(_)
SeqSum(ds) == IF ds = <<>> THEN 0 ELSE Head(ds) + SeqSum(Tail(ds))

\* sum((d - mean) ** 2 for d in dlist)
RECURSIVE SumSqDev(_, _)
SumSqDev(ds, mean) ==
    IF ds = <<>> THEN R(0)
    ELSE LET dev == RSub(R(Head(ds)), mean)
         IN  RAdd(RMul(dev, dev), SumSqDev(Tail(ds), mean))

\* math.sqrt(v), kept exact: the non-negative number whose square is v
Sqrt(v) == <<"sqrt", v>>

\* sum(1 for d in dlist if d > L) with >= in place of >
CountGtL_AtLeast(dlist, l) == Cardinality({j \in 1..Len(dlist) : dlist[j] >= l})

\* sum(1 for d in dlist if d > L)
CountGtL(dlist, l) == Cardinality({j \in 1..Len(dlist) : dlist[j] > l})

\* the tuple summarize appends for one method, as a record
SummaryOf(ds, mw, xw, l) ==
    LET dlist == SelectSeq(ds, NotNone)
    IN  IF dlist = <<>>
        THEN [count_gt_L |-> 0, attempts |-> 0, mean |-> R(0), std |-> Sqrt(R(0)),
              min |-> R(0), max |-> R(0), min_wins |-> 0, max_wins |-> 0]
        ELSE LET attempts == Len(dlist)
                 mean == RDiv(R(SeqSum(dlist)), R(attempts))
                 variance == RDiv(SumSqDev(dlist, mean), R(attempts))
                 d_min == CHOOSE d \in {dlist[j] : j \in 1..attempts} :
                              \A j \in 1..attempts : d <= dlist[j]
                 d_max == CHOOSE d \in {dlist[j] : j \in 1..attempts} :
                              \A j \in 1..attempts : dlist[j] <= d
             IN  [count_gt_L |-> CountGtL(dlist, l), attempts |-> attempts,
                  mean |-> mean, std |-> Sqrt(variance),
                  min |-> R(d_min), max |-> R(d_max), min_wins |-> mw, max_wins |-> xw]

\* summarize(data, L) on the dict run_all returned, with the same L
Summarize ==
    /\ fn = "run_all" /\ pc = "done" /\ outcome = "returned"
    /\ fn' = "summarize"
    /\ summary' = [i \in 1..N |-> SummaryOf(distances[i], min_wins[i], max_wins[i], L)]
    /\ UNCHANGED <<L, pc, outcome, t, result, obj, iterations, iter, row, distances,
                   min_wins, max_wins, params, sidepos, points, cls>>

Next ==
    \/ Start_parametric
    \/ Retry_parametric
    \/ Return_parametric
    \/ Start_by_side
    \/ Retry_by_side
    \/ Return_by_side
    \/ Start_by_edge_label
    \/ Retry_by_edge_label
    \/ Return_by_edge_label
    \/ Start_polar_ray
    \/ Retry_polar_ray
    \/ Return_polar_ray
    \/ Start_side_pos
    \/ Retry_side_pos
    \/ Return_side_pos
    \/ Start_parametric_modular
    \/ Retry_parametric_modular
    \/ Return_parametric_modular
    \/ Start_cartesian
    \/ Retry_cartesian
    \/ Return_cartesian
    \/ Start_polar_angle
    \/ Retry_polar_angle
    \/ Return_polar_angle
    \/ Start_interior_projection
    \/ Retry_interior_projection
    \/ Return_interior_projection
    \/ Call_project_to_border
    \/ Call_perimeter_to_xy
    \/ New_Square
    \/ New_PerimeterSampler
    \/ Call_is_on_perimeter
    \/ Call_Square_on_perimeter
    \/ Call_are_distinct
    \/ Call_is_distinct
    \/ Call_side_of
    \/ Call_tests_side_of
    \/ Count_test_method
    \/ Count_check_distribution

Spec == Init /\ [][Next]_vars

\* the test of the while loop the call is in
RetryCondition ==
    IF fn \in {"sample_parametric", "sample_parametric_modular"} THEN ParamRetry(t1, t2)
    ELSE IF fn \in {"sample_polar_ray", "sample_polar_angle"} THEN AngleRetry(t1, t2)
    ELSE IF fn = "sample_side_pos" THEN SidePosRetry(side1, side2, s1, s2)
    ELSE ~IsDistinct(p1, p2)

\* the body of the while loop of the strategy called
RetryAny ==
    \/ Retry_parametric
    \/ Retry_by_side
    \/ Retry_by_edge_label
    \/ Retry_polar_ray
    \/ Retry_side_pos
    \/ Retry_parametric_modular
    \/ Retry_cartesian
    \/ Retry_polar_angle
    \/ Retry_interior_projection

\* the exit of the while loop, its test being false: the step to the return
LoopExit == pc = "loop" /\ ~RetryCondition /\ pc' = "done"

\* a pass of the loop whose draw makes the test of the loop false
AcceptedRedraw == RetryAny /\ ~RetryCondition'

\* The interpreter goes on executing a call that can proceed, and the random
\* generator does not withhold for ever the draws that end the loop.  One
\* behaviour being one call, fairness of the step of the strategy called is
\* fairness of each strategy.
SpecLive ==
    /\ Init /\ [][Next]_vars
    /\ WF_pc(LoopExit)
    /\ WF_vars(AcceptedRedraw)

\* one call of run_all, followed by summarize
NextAgg ==
    \/ RunAll_Start
    \/ RunAll_InvokeReturns
    \/ RunAll_InvokeRaises
    \/ RunAll_FinishTrial
    \/ Summarize

SpecAgg == Init /\ [][NextAgg]_vars

\* ================================================================ claims
Strategies ==
    {"sample_parametric", "sample_by_side", "sample_by_edge_label",
     "sample_polar_ray", "sample_side_pos", "sample_parametric_modular",
     "sample_cartesian", "sample_polar_angle", "sample_interior_projection"}

Returned(f) == fn = f /\ pc = "done" /\ outcome = "returned"

\* p lies on the perimeter of the square of side l: both coordinates are in
\* [0, l] and one of them is 0 or l
OnPerimeterExact(p, l) ==
    /\ 0 <= p[1][1] /\ p[1][1] <= l * p[1][2]
    /\ 0 <= p[2][1] /\ p[2][1] <= l * p[2][2]
    /\ p[1] \in {R(0), R(l)} \/ p[2] \in {R(0), R(l)}

\* some coordinate of p and q differs by strictly more than the tolerance
CoordGap(a, b) == Abs(a[1] * b[2] - b[1] * a[2]) > Tol * a[2] * b[2]
GeomDistinct(p, q) == CoordGap(p[1], q[1]) \/ CoordGap(p[2], q[2])

\* C1: for L > 0, both points returned by any of the nine strategies lie on
\* the perimeter of the square: coordinates in [0, L], one of them 0 or L.
C1_ReturnedPointsOnPerimeter ==
    (fn \in Strategies /\ outcome = "returned" /\ L > 0)
        => \A i \in 1..2 : OnPerimeterExact(result[i], L)

\* sample_polar_ray has returned a point in the open top side whose x is
\* not a whole number of grid steps, next to a point of the right side
C1_Witness ==
    /\ Returned("sample_polar_ray") /\ L > 0
    /\ result[1][2] = R(L) /\ result[1][1][2] > 1
    /\ result[2][1] = R(L)

\* C2: for L > 0, whenever sample_by_side, sample_by_edge_label,
\* sample_cartesian or sample_interior_projection returns, some coordinate
\* of the two returned points differs by strictly more than 1e-12.
C2_LoopOnPointsReturnsDistinct ==
    (/\ fn \in {"sample_by_side", "sample_by_edge_label", "sample_cartesian",
                "sample_interior_projection"}
     /\ outcome = "returned" /\ L > 0)
        => GeomDistinct(result[1], result[2])

\* sample_by_side has returned two points of the bottom side that are one
\* grid step more than the tolerance apart
C2_Witness ==
    /\ Returned("sample_by_side") /\ L > 0
    /\ result[1][2] = R(0) /\ result[2][2] = R(0)
    /\ result[2][1] = RAdd(result[1][1], R(Tol + 1))

\* C3: for L > 0 and draws t1, t2 in [0, 4L] accepted by the retry test of
\* sample_parametric and sample_parametric_modular, the two returned points
\* are geometrically distinct.
C3_ParametricReturnsDistinct ==
    (/\ fn \in {"sample_parametric", "sample_parametric_modular"}
     /\ outcome = "returned" /\ L > 0)
        => GeomDistinct(result[1], result[2])

\* C4: for L > 0 and every draw of sides and positions, the pair returned by
\* sample_side_pos is geometrically distinct.
C4_SidePosReturnsDistinct ==
    (fn = "sample_side_pos" /\ outcome = "returned" /\ L > 0)
        => GeomDistinct(result[1], result[2])

\* C5: for L > 0 and angles in [0, 2*pi] accepted by the retry test of
\* sample_polar_ray and sample_polar_angle, the two returned boundary points
\* are geometrically distinct.
C5_PolarReturnsDistinct ==
    (/\ fn \in {"sample_polar_ray", "sample_polar_angle"}
     /\ outcome = "returned" /\ L > 0)
        => GeomDistinct(result[1], result[2])

\* C6: a call of any of the nine strategies with L <= 0 ends with an
\* invalid-argument error and never with a pair of points.
C6_StrategiesRejectNonPositiveL ==
    (fn \in Strategies /\ L <= 0 /\ pc = "done") => outcome = "raised"

\* C7: Square(L) and PerimeterSampler(L) raise and yield no object when
\* L <= 0, and otherwise yield an object storing exactly L; so every
\* constructed object has L > 0.
C7_ConstructorsRequirePositiveL ==
    /\ fn \in {"Square", "PerimeterSampler"} =>
           IF L <= 0
           THEN outcome = "raised" /\ obj = NoObj
           ELSE outcome = "returned" /\ obj = [cls |-> fn, L |-> L]
    /\ obj # NoObj => obj.L > 0

\* Square(0) was refused
C7_Witness == fn = "Square" /\ L = 0 /\ outcome = "raised" /\ obj = NoObj

\* C8: for L > 0 and every t, negative, zero or positive,
\* _perimeter_to_xy(t, L) = _perimeter_to_xy(t + 4L, L).
C8_Periodicity ==
    (Returned("_perimeter_to_xy") /\ L > 0)
        => result[1] = PerimeterToXY(t + 4 * L, L)

\* the helper was called with a negative t and returned a point inside the
\* right side
C8_Witness ==
    /\ Returned("_perimeter_to_xy") /\ L > 0 /\ t < 0
    /\ result[1][1] = R(L) /\ result[1][2] \notin {R(0), R(L)}

\* C9: for L > 0, _perimeter_to_xy maps t = 0, L, 2L, 3L exactly to the
\* vertices (0,0), (L,0), (L,L), (0,L).
C9_CornerExactness ==
    (Returned("_perimeter_to_xy") /\ L > 0) =>
        /\ t = 0 => result[1] = Pt(0, 0)
        /\ t = L => result[1] = Pt(L, 0)
        /\ t = 2 * L => result[1] = Pt(L, L)
        /\ t = 3 * L => result[1] = Pt(0, L)

\* the helper was called at the end of the right side, t = 2L
C9_Witness == Returned("_perimeter_to_xy") /\ L > 0 /\ t = 2 * L

\* C10: for L > 0 and every t, with u = t mod 4L, _perimeter_to_xy(t, L) is
\* (u, 0) for u in [0, L), (L, u - L) for u in [L, 2L), (3L - u, L) for u in
\* [2L, 3L) and (0, 4L - u) for u in [3L, 4L), and it is a perimeter point.
C10_CounterClockwiseTraversal ==
    (Returned("_perimeter_to_xy") /\ L > 0) =>
        LET u == t % (4 * L)
        IN  /\ 0 <= u /\ u < L => result[1] = Pt(u, 0)
            /\ L <= u /\ u < 2 * L => result[1] = Pt(L, u - L)
            /\ 2 * L <= u /\ u < 3 * L => result[1] = Pt(3 * L - u, L)
            /\ 3 * L <= u /\ u < 4 * L => result[1] = Pt(0, 4 * L - u)
            /\ OnPerimeterExact(result[1], L)

\* the helper was called one period and more beyond the range, at a t that
\* falls inside the top side
C10_Witness ==
    /\ Returned("_perimeter_to_xy") /\ L > 0 /\ t > 4 * L
    /\ t % (4 * L) = 2 * L + 1

\* ------------------------------------------------------ classification
IsVertex(p, l) == p \in {Pt(0, 0), Pt(l, 0), Pt(l, l), Pt(0, l)}

\* C15: every classification of a point by side (side_of of utils.helpers
\* and of the tests, the edge counting of main.test_method and of
\* check_distribution) reports a vertex of the square as "corner" and never
\* counts it toward one of the four sides.
C15_VertexIsNeverCountedTowardASide ==
    (/\ fn \in {"side_of", "tests.side_of", "test_method", "check_distribution"}
     /\ pc = "done"
     /\ IsVertex(point, L)) =>
        label \notin {"bottom", "top", "left", "right"}

\* C16: for L > 0 and tol > 0, side_of(p, L, tol) returns "off" exactly when
\* is_on_perimeter(p, L, tol) is false.
C16_OffExactlyWhenNotOnPerimeter ==
    (Returned("side_of") /\ L > 0 /\ tol > 0) =>
        (label = "off" <=> ~IsOnPerimeter(point, L, tol))

\* ------------------------------------------------------- the strategies
\* both coordinates strictly inside the bottom side
InsideBottom(p, l) == p[2] = R(0) /\ RLt(R(0), p[1]) /\ RLt(p[1], R(l))

\* C17: sample_by_side does not force the two points onto different sides:
\* whatever their sides, two distinct points leave the loop at once and are
\* the pair returned, so there are draws that return two distinct points of
\* the same side.
C17_BySideAllowsSameSide ==
    [][(InLoop("sample_by_side") /\ L > 0 /\ GeomDistinct(p1, p2)) =>
          (pc' = "done" /\ outcome' = "returned" /\ result' = <<p1, p2>>)]_vars

\* sample_by_side returned two distinct points that both lie strictly
\* inside the bottom side
C17_Witness ==
    /\ Returned("sample_by_side") /\ L > 0
    /\ InsideBottom(result[1], L) /\ InsideBottom(result[2], L)
    /\ GeomDistinct(result[1], result[2])

\* C18: for each of the nine strategies and L > 0 the distance d between the
\* two returned points satisfies 0 < d^2 <= 2 * L^2.
C18_DistanceBound ==
    \A f \in Strategies :
        (Returned(f) /\ L > 0) =>
            LET d2 == EuclideanSq(result[1], result[2])
            IN  d2[1] > 0 /\ d2[1] <= 2 * L * L * d2[2]

\* C20: for L > 0 the wall search of sample_polar_ray's intersection finds a
\* candidate for each of the two directions drawn: the fallback is not taken.
C20_RayAlwaysMeetsAWall ==
    (fn = "sample_polar_ray" /\ L > 0 /\ pc # "idle") =>
        (Candidates(t1, L) # {} /\ Candidates(t2, L) # {})

\* sample_polar_ray returned with a ray through the vertex (L, L) and a
\* vertical ray through the midpoint of the top side
C20_Witness ==
    /\ Returned("sample_polar_ray") /\ L > 0
    /\ result[1] = Pt(L, L)
    /\ result[2] = <<Norm(L, 2), R(L)>>

\* ------------------------------------------------ the comparison (SpecAgg)
\* the trials of method i in which it produced a distance
Succeeded(i) == {j \in 1..Len(distances[i]) : distances[i][j] # None}

\* C11: when a strategy raises inside a run_all trial, that trial records
\* None for it: it earns no win in that trial and the trial is not among its
\* attempts; the other strategies of the trial are still evaluated, and the
\* run goes on until all the requested trials are done, without raising.
C11_RaisingStrategyRecordsNone ==
    /\ [](fn \in {"run_all", "summarize"} =>
            /\ outcome # "raised"
            /\ \A i \in 1..N : Len(distances[i]) = iter
            /\ pc = "done" => iter = iterations
            /\ fn = "summarize" =>
                   \A i \in 1..N : summary[i].attempts = Cardinality(Succeeded(i)))
    /\ [][fn = "run_all" =>
            /\ (Len(row') > Len(row) /\ row'[Len(row')] = None) =>
                   (pc' = "row" /\ iter' = iter /\ distances' = distances)
            /\ distances' # distances =>
                   /\ Len(row) = N
                   /\ \A i \in 1..N :
                          /\ distances'[i] = Append(distances[i], row[i])
                          /\ row[i] = None =>
                                 /\ min_wins'[i] = min_wins[i]
                                 /\ max_wins'[i] = max_wins[i]]_vars

\* a run of two trials was summarized in which the first method raised in
\* the first trial while the second method succeeded, and the first method
\* succeeded in the second trial
C11_Witness ==
    /\ fn = "summarize" /\ iterations = 2
    /\ distances[1][1] = None /\ distances[2][1] # None
    /\ distances[1][2] # None
    /\ summary[1].attempts = 1

\* |a - b| <= 1e-9 * max(|a|, |b|)
WithinRelTol(a, b) ==
    RelTolInv * Abs(a - b) <= (IF Abs(a) >= Abs(b) THEN Abs(a) ELSE Abs(b))

\* C12: in every trial a strategy is credited a shortest (longest) win
\* exactly when it succeeded and its distance is within relative tolerance
\* 1e-9 of the minimum (maximum) over the succeeding strategies; so all tied
\* strategies are credited, and a trial with a success credits at least one
\* shortest and one longest win.
C12_WinsWithinRelativeTolerance ==
    [][(fn = "run_all" /\ distances' # distances) =>
          LET ok == {i \in 1..N : row[i] # None}
              lo == CHOOSE d \in {row[i] : i \in ok} : \A i \in ok : d <= row[i]
              hi == CHOOSE d \in {row[i] : i \in ok} : \A i \in ok : row[i] <= d
          IN  /\ ok = {} => (min_wins' = min_wins /\ max_wins' = max_wins)
              /\ ok # {} =>
                    /\ \A i \in 1..N :
                           /\ min_wins'[i] = min_wins[i] +
                                  (IF i \in ok /\ WithinRelTol(row[i], lo) THEN 1 ELSE 0)
                           /\ max_wins'[i] = max_wins[i] +
                                  (IF i \in ok /\ WithinRelTol(row[i], hi) THEN 1 ELSE 0)
                    /\ \E i \in ok : min_wins'[i] = min_wins[i] + 1
                    /\ \E i \in ok : max_wins'[i] = max_wins[i] + 1]_vars

\* after a first trial whose two distances differ but lie within the
\* tolerance of each other, both methods hold a shortest and a longest win
C12_Witness ==
    /\ fn = "run_all" /\ iter = 1
    /\ distances[1] = <<RelTolInv - 1>> /\ distances[2] = <<RelTolInv>>
    /\ min_wins = <<1, 1>> /\ max_wins = <<1, 1>>

RECURSIVE Total(_, _)
Total(ds, S) ==
    IF S = {} THEN 0
    ELSE LET j == CHOOSE e \in S : TRUE IN ds[j] + Total(ds, S \ {j})

\* the sum over S of (m2 * ds[j] - m1)^2
RECURSIVE TotalSq(_, _, _, _)
TotalSq(ds, S, m1, m2) ==
    IF S = {} THEN 0
    ELSE LET j == CHOOSE e \in S : TRUE
         IN  (m2 * ds[j] - m1) * (m2 * ds[j] - m1) + TotalSq(ds, S \ {j}, m1, m2)

\* C13: for each method summarize reports attempts = the number of its
\* successful trials, count_gt_L = how many of their distances are strictly
\* greater than L, their mean, std = the square root of their population
\* variance (the squared deviations divided by attempts), their minimum and
\* maximum, and the two win counts; a method without a successful trial gets
\* the all-zero record.
C13_SummaryStatistics ==
    fn = "summarize" =>
        \A i \in 1..N :
            LET ds == distances[i]
                ok == Succeeded(i)
                n == Cardinality(ok)
                s == summary[i]
            IN  /\ n = 0 =>
                       /\ s.attempts = 0 /\ s.count_gt_L = 0
                       /\ s.mean = <<0, 1>> /\ s.std = <<"sqrt", <<0, 1>>>>
                       /\ s.min = <<0, 1>> /\ s.max = <<0, 1>>
                       /\ s.min_wins = 0 /\ s.max_wins = 0
                /\ n > 0 =>
                       /\ s.attempts = n
                       /\ s.count_gt_L = Cardinality({j \in ok : ds[j] > L})
                       /\ s.mean[2] > 0
                       /\ s.mean[1] * n = s.mean[2] * Total(ds, ok)
                       /\ s.std[1] = "sqrt" /\ s.std[2][2] > 0
                       /\ s.std[2][1] * n * s.mean[2] * s.mean[2] =
                              s.std[2][2] * TotalSq(ds, ok, s.mean[1], s.mean[2])
                       /\ s.min[2] = 1 /\ s.max[2] = 1
                       /\ \E j \in ok : ds[j] = s.min[1]
                       /\ \E j \in ok : ds[j] = s.max[1]
                       /\ \A j \in ok : s.min[1] <= ds[j] /\ ds[j] <= s.max[1]
                       /\ s.min_wins = min_wins[i] /\ s.max_wins = max_wins[i]

\* summarized: a method with one distance equal to L and one above it, next
\* to a method that raised in both trials
C13_Witness ==
    /\ fn = "summarize" /\ L = RelTolInv
    /\ distances[1] = <<RelTolInv, 2 * RelTolInv>>
    /\ distances[2] = <<None, None>>
    /\ summary[1].count_gt_L = 1 /\ summary[1].attempts = 2
    /\ summary[2].attempts = 0

\* C14: run_all called with L <= 0 does not return: it ends with the
\* invalid-configuration error.
C14_RunAllRejectsNonPositiveL ==
    (fn = "run_all" /\ L <= 0 /\ pc = "done") => outcome = "raised"

\* ------------------------------------------------ the two polar methods
\* C21: when intersection finds no wall candidate for an angle it returns
\* the bottom midpoint (L/2, 0) and the call does not raise; no division is
\* made by a zero component of the direction.
C21_FallbackIsBottomMidpoint ==
    (fn = "sample_polar_ray" /\ pc = "done") =>
        /\ outcome = "returned"
        /\ Candidates(t1, L) = {} => result[1] = <<Norm(L, 2), R(0)>>
        /\ Candidates(t2, L) = {} => result[2] = <<Norm(L, 2), R(0)>>
        /\ 0 \notin Divisors(t1) \cup Divisors(t2)

\* sample_polar_ray returned the fallback point for a horizontal first
\* direction and a vertical second one, on a side L < 0 where no wall
\* accepts a candidate
C21_Witness ==
    /\ Returned("sample_polar_ray") /\ L < 0
    /\ Dir(t1)[2] = 0 /\ Dir(t2)[1] = 0
    /\ Candidates(t1, L) = {} /\ Candidates(t2, L) = {}
    /\ result[1] = <<Norm(L, 2), R(0)>>

\* C22: for L > 0 and every direction, angle_to_point of sample_polar_angle
\* and intersection of sample_polar_ray give the same boundary point, rays
\* through a vertex included: each method returns what the other computes.
C22_PolarAngleEqualsRayCasting ==
    /\ (Returned("sample_polar_angle") /\ L > 0) =>
           result = <<Intersection(t1, L), Intersection(t2, L)>>
    /\ (Returned("sample_polar_ray") /\ L > 0) =>
           result = <<AngleToPoint(t1, L), AngleToPoint(t2, L)>>

\* sample_polar_angle returned for a ray through the vertex (L, L) and a ray
\* that meets the right side between its midpoint and that vertex
C22_Witness ==
    /\ Returned("sample_polar_angle") /\ L > 0
    /\ result[1] = Pt(L, L)
    /\ result[2][1] = R(L) /\ RLt(Norm(L, 2), result[2][2]) /\ RLt(result[2][2], R(L))

\* ------------------------------------------- the two parametric methods
\* C23: for L > 0 and every t of the closed draw range [0, 4L] the inline
\* point(t) of sample_parametric equals _perimeter_to_xy(t, L): on the same
\* draws t1, t2 each of the two functions returns the pair the other computes.
C23_ParametricEqualsModular ==
    /\ (Returned("sample_parametric") /\ L > 0) =>
           result = <<PerimeterToXY(t1, L), PerimeterToXY(t2, L)>>
    /\ (Returned("sample_parametric_modular") /\ L > 0) =>
           result = <<ParametricPoint(t1, L), ParametricPoint(t2, L)>>

\* sample_parametric returned on the draws t1 = 4L, the closed end of the
\* range, and t2 inside the left side
C23_Witness ==
    /\ Returned("sample_parametric") /\ L > 0
    /\ t1 = 4 * L
    /\ 3 * L < t2 /\ t2 < 4 * L

\* ------------------------------------------------------ the retry loops
\* C24: for L > 0 the retry loop of each of the nine strategies has no cap on
\* its iterations: while its test holds the call stays in the loop; and if
\* the draws that falsify the test are not withheld for ever, the call
\* leaves the loop and returns.
C24_RetryLoopTerminates ==
    /\ [][(pc = "loop" /\ L > 0 /\ RetryCondition) => (pc' = "loop" /\ fn' = fn)]_vars
    /\ (pc = "loop" /\ L > 0) ~> (pc = "done" /\ outcome = "returned")

\* sample_side_pos is in its loop with the same side and the same position
\* drawn twice: a redraw is due
C24_Witness ==
    /\ InLoop("sample_side_pos") /\ L > 0
    /\ side1 = side2 /\ s1 = s2
    /\ RetryCondition

\* --------------------------------------------------- the trials of run_all
\* C25: in run_all the tallies and the lists of distances change for a trial
\* only once its row holds an entry for every strategy, and then all at
\* once; so at any moment every list of distances has one entry for each
\* completed trial and none for the trial in progress.
C25_TrialIsAtomic ==
    /\ [](fn = "run_all" =>
            /\ Len(row) <= N
            /\ \A i \in 1..N : Len(distances[i]) = iter)
    /\ [][fn = "run_all" =>
            ((distances' # distances \/ min_wins' # min_wins \/ max_wins' # max_wins) =>
                 /\ Len(row) = N
                 /\ iter' = iter + 1
                 /\ row' = <<>>
                 /\ \A i \in 1..N : distances'[i] = Append(distances[i], row[i]))]_vars

\* the second trial is in progress with one strategy invoked: the lists and
\* the tallies hold the first trial only
C25_Witness ==
    /\ fn = "run_all" /\ pc = "row" /\ iter = 1
    /\ Len(row) = 1 /\ row[1] # None
    /\ \A i \in 1..N : Len(distances[i]) = 1

\* ------------------------------------------------------ project_to_border
\* the distances of the point to the four side lines and the least of them
SideGaps(p, l) == <<p[2], RSub(R(l), p[2]), p[1], RSub(R(l), p[1])>>
NearestGap(p, l) ==
    RMin(RMin(SideGaps(p, l)[1], SideGaps(p, l)[2]),
         RMin(SideGaps(p, l)[3], SideGaps(p, l)[4]))

\* C26: project_to_border moves a point of the square perpendicularly onto
\* the nearest side, over the distance min{y, L - y, x, L - x}; when several
\* sides are equally near it takes the first of bottom, top, left, right.
C26_ProjectsOntoNearestSide ==
    (fn = "project_to_border" /\ pc = "done" /\ L > 0) =>
        LET x == point[1]
            y == point[2]
            g == SideGaps(point, L)
            m == NearestGap(point, L)
            q == result[1]
        IN  /\ q = IF g[1] = m THEN <<x, R(0)>>
                   ELSE IF g[2] = m THEN <<x, R(L)>>
                   ELSE IF g[3] = m THEN <<R(0), y>>
                   ELSE <<R(L), y>>
            /\ \/ q[1] = x /\ RAbs(RSub(q[2], y)) = m
               \/ q[2] = y /\ RAbs(RSub(q[1], x)) = m
            /\ OnPerimeterExact(q, L)

\* a point on the diagonal, as near to the bottom as to the left: it goes down
C26_Witness ==
    /\ fn = "project_to_border" /\ pc = "done" /\ L > 0
    /\ point[1] = point[2]
    /\ RLt(R(0), point[1]) /\ RLt(point[1], Norm(L, 2))
    /\ result[1] = <<point[1], R(0)>>

\* ------------------------------------------------ the two perimeter tests
\* a coordinate strictly within tl of 0 or of l
NearALine(v, l, tl) ==
    \/ v[1] < tl * v[2] /\ 0 - v[1] < tl * v[2]
    \/ v[1] - l * v[2] < tl * v[2] /\ l * v[2] - v[1] < tl * v[2]
Between(v, l) == 0 <= v[1] /\ v[1] <= l * v[2]

\* one coordinate strictly within tl of 0 or l, the other in [0, l]
OnBand(p, l, tl) ==
    \/ NearALine(p[1], l, tl) /\ Between(p[2], l)
    \/ NearALine(p[2], l, tl) /\ Between(p[1], l)

StrictlyInside(p, l) ==
    /\ 0 < p[1][1] /\ p[1][1] < l * p[1][2]
    /\ 0 < p[2][1] /\ p[2][1] < l * p[2][2]
OutsideSquare(p, l) == ~(Between(p[1], l) /\ Between(p[2], l))
CornerOrMidpoint(p, l) ==
    /\ p[1] \in {R(0), Norm(l, 2), R(l)} /\ p[2] \in {R(0), Norm(l, 2), R(l)}
    /\ p # <<Norm(l, 2), Norm(l, 2)>>

PerimeterTested ==
    /\ fn \in {"is_on_perimeter", "Square.on_perimeter"}
    /\ pc = "done" /\ L > 0 /\ tol > 0

\* the two tests agree, and say "True" exactly on the band around the sides
BandVerdict ==
    /\ (label = "True") = OnBand(point, L, tol)
    /\ (label = "True") = IsOnPerimeter(point, L, tol)
    /\ (label = "True") = SquareOnPerimeter(point, L, tol)
    /\ CornerOrMidpoint(point, L) => label = "True"

\* C27 as stated: Square.on_perimeter and is_on_perimeter agree; they are
\* true exactly when one coordinate is strictly within tol of 0 or L and the
\* other is in [0, L]; true at the corners and side midpoints, false for every
\* interior point and every point outside the square.
C27_AsStated ==
    PerimeterTested =>
        /\ BandVerdict
        /\ (StrictlyInside(point, L) \/ OutsideSquare(point, L)) => label = "False"

\* C27, amended: Square.on_perimeter and is_on_perimeter agree; they are true
\* exactly when one coordinate is strictly within tol of 0 or L and the other
\* is in [0, L]; true at the corners and side midpoints, false for every
\* point, interior or outside, with both coordinates at least tol away from
\* 0 and from L.
C27_PerimeterTestsAgree ==
    PerimeterTested =>
        /\ BandVerdict
        /\ (~NearALine(point[1], L, tol) /\ ~NearALine(point[2], L, tol)) =>
               label = "False"

\* an interior point less than tol from the left side, which Square.on_perimeter
\* takes for a point of the perimeter
C27_Witness ==
    /\ PerimeterTested /\ fn = "Square.on_perimeter"
    /\ StrictlyInside(point, L)
    /\ NearALine(point[1], L, tol)
    /\ label = "True"

\* ------------------------------------------------------ the two comparisons
\* the coordinates a and b differ by strictly more than tl
GapOver(a, b, tl) ==
    \/ a[1] * b[2] - b[1] * a[2] > tl * a[2] * b[2]
    \/ b[1] * a[2] - a[1] * b[2] > tl * a[2] * b[2]

Compared == fn \in {"are_distinct", "_is_distinct"} /\ pc = "done"

\* C28: are_distinct and _is_distinct are true exactly when some coordinate
\* of the two points differs by strictly more than tol (so false for equal
\* points and for points within tol in both coordinates); swapping the
\* arguments does not change the answer, and the two functions give the same
\* answer, which at the default tol is the one the retry loops use.
C28_DistinctIffSomeGapOverTol ==
    Compared =>
        LET yes == (label = "True")
        IN  /\ yes = (GapOver(p1[1], p2[1], tol) \/ GapOver(p1[2], p2[2], tol))
            /\ p1 = p2 => ~yes
            /\ yes = AreDistinct(p1, p2, tol) /\ yes = AreDistinct(p2, p1, tol)
            /\ yes = IsDistinctTol(p1, p2, tol) /\ yes = IsDistinctTol(p2, p1, tol)
            /\ tol = Tol => yes = IsDistinct(p1, p2)

\* two different points, one coordinate apart by exactly tol and the other by
\* less: are_distinct says they are the same
C28_Witness ==
    /\ Compared /\ fn = "are_distinct" /\ tol = Tol
    /\ p1[1] = RAdd(p2[1], R(tol))
    /\ p1[2] # p2[2] /\ ~GapOver(p1[2], p2[2], tol)
    /\ label = "False"

\* ------------------------------------------------- bounds on the summary
\* C29: in the summary of a run of `iterations` trials, for every strategy,
\* shortest_wins <= attempts, longest_wins <= attempts,
\* count_gt_L <= attempts <= iterations and, if attempts > 0,
\* min <= mean <= max; and in a trial where one strategy alone succeeds, that
\* strategy is credited a shortest and a longest win.
C29_SummaryBounds ==
    /\ [](fn = "summarize" =>
            \A i \in 1..N :
                LET s == summary[i]
                IN  /\ s.min_wins <= s.attempts
                    /\ s.max_wins <= s.attempts
                    /\ s.count_gt_L <= s.attempts
                    /\ s.attempts <= iterations
                    /\ s.attempts > 0 => (RLe(s.min, s.mean) /\ RLe(s.mean, s.max)))
    /\ [][(fn = "run_all" /\ iter' = iter + 1) =>
            \A i \in 1..N :
                (\A k \in 1..N : (row[k] # None) = (k = i)) =>
                    /\ min_wins'[i] = min_wins[i] + 1
                    /\ max_wins'[i] = max_wins[i] + 1
                    /\ \A k \in 1..N \ {i} :
                           min_wins'[k] = min_wins[k] /\ max_wins'[k] = max_wins[k]]_vars

\* the first strategy fails in the first trial and is alone to succeed in
\* the second: one attempt, one shortest and one longest win
C29_Witness ==
    /\ fn = "summarize" /\ iterations = 2
    /\ distances[1][1] = None /\ distances[1][2] # None
    /\ distances[2][1] # None /\ distances[2][2] = None
    /\ summary[1].attempts = 1
    /\ summary[1].min_wins = 1 /\ summary[1].max_wins = 1
    /\ RLt(summary[1].min, R(2 * RelTolInv))

\* ------------------------------------------------------- the first draw
\* the first point of the pair, from the first draw as the strategy keeps it
FirstPoint ==
    IF fn = "sample_parametric" THEN ParametricPoint(t1, L)
    ELSE IF fn = "sample_parametric_modular" THEN PerimeterToXY(t1, L)
    ELSE IF fn = "sample_polar_ray" THEN Intersection(t1, L)
    ELSE IF fn = "sample_polar_angle" THEN AngleToPoint(t1, L)
    ELSE IF fn = "sample_side_pos" THEN SidePosPoint(side1, s1, L)
    ELSE p1

\* C30: no pass of a retry loop, and no exit from it, changes the first
\* draw (t1, the first angle, side1 and s1, or p1); a pass changes the second
\* draw only, and the first point returned is the one of the first draw.
C30_RetryKeepsFirstDraw ==
    /\ [][(pc = "loop" /\ fn \in Strategies) =>
            /\ fn' = fn /\ L' = L
            /\ t1' = t1 /\ side1' = side1 /\ s1' = s1 /\ p1' = p1]_vars
    /\ [](\A f \in Strategies : Returned(f) => result[1] = FirstPoint)

\* sample_side_pos returns two points of one side: the first where the first
\* draw put it
C30_Witness ==
    /\ Returned("sample_side_pos") /\ L > 0
    /\ side1 = side2 /\ s1 # s2
    /\ result[1] = SidePosPoint(side1, s1, L)
    /\ result[2] = SidePosPoint(side2, s2, L)
====
